---- MODULE Spec2Model ----
(***************************************************************************)
(* Model of gluonts.ev: the Evaluator (src/gluonts/ev/evaluator.py) with   *)
(* its dependency resolver and result table, and the streaming Sum / Mean  *)
(* aggregations exercised by test/ev/test_aggregations.py.                 *)
(***************************************************************************)
EXTENDS Integers, Sequences, FiniteSets, TLC

\* ------------------------------------------------------------------ bounds
\* number of cells over all batches of a freely chosen value stream
MaxCells == 4
\* number of Metric objects that exist
NumMetrics == 3
\* total number of entries over all `dependencies` lists
MaxEdges == 2
\* length of the collection passed to Evaluator(metrics)
MaxRequested == 2
\* len(test_pairs.dataset)
MaxItems == 3
\* interpreter recursion limit (sys.getrecursionlimit), scaled down
RecursionLimit == 8

MetricIds == 1..NumMetrics

\* names the Metric objects can carry; object i is called MetricNames[i],
\* except that the last object may reuse the name of the first
MetricNames == <<"abs_error", "mse", "mape", "rmse", "smape", "wape">>

VARIABLES
    \* the Metric objects: Metric.name, Metric.dependencies, Metric.can_aggregate
    metric_name, dependencies, can_aggregate,
    \* Evaluator
    pc, error, metrics, local_metric_targets, aggregation_targets, local_metrics,
    \* Evaluator.apply: its inputs, its result table, and a record of every
    \* call of metric.get with the scratch mapping it was handed
    dataset_len, forecasts_len, table, evaluations,
    \* what LocalMetrics.get() / LocalMetrics.aggregate() returned
    got, aggregations,
    \* an Aggregation object (gluonts.ev.aggregations): its class and axis, its
    \* running state, the batches it was fed, and what get() last returned
    aggregation, axis, partial_result, count_n, value_stream, source, get_result

evaluator_vars ==
    <<metric_name, dependencies, can_aggregate, pc, error, metrics,
      local_metric_targets, aggregation_targets, local_metrics,
      dataset_len, forecasts_len, table, evaluations, got, aggregations>>

aggregation_vars == <<aggregation, axis, partial_result, count_n, value_stream, source, get_result>>

vars == <<evaluator_vars, aggregation_vars>>

\* ------------------------------------------------------------ helpers
Range(s) == {s[i] : i \in 1..Len(s)}

NoRepeat(s) == \A i, j \in 1..Len(s) : i # j => s[i] # s[j]

RECURSIVE SeqsUpTo(_, _)
\* the sequences over S of length at most n
SeqsUpTo(S, n) ==
    IF n = 0 THEN {<<>>}
    ELSE LET shorter == SeqsUpTo(S, n - 1)
         IN  shorter \cup {Append(s, x) : s \in shorter, x \in S}

\* the value of `got` / `aggregations` while the method has not been called
Unset == [returned |-> FALSE, value |-> <<>>]

Returned(v) == [returned |-> TRUE, value |-> v]

\* Python's None, and a value that is not None
None == [is_none |-> TRUE, value |-> <<>>]

Some(v) == [is_none |-> FALSE, value |-> v]

\* axis=None
AxisNone == -1

\* ------------------------------------------------------------ Python dict
\* A dict is the sequence of its items in insertion order.
Keys(d) == {d[i].key : i \in 1..Len(d)}

KeyIndex(d, k) == CHOOSE i \in 1..Len(d) : d[i].key = k

Lookup(d, k) == d[KeyIndex(d, k)].value

\* d[k] = v : an existing key keeps its position, a new key goes last
SetItem(d, k, v) ==
    IF k \in Keys(d)
    THEN [d EXCEPT ![KeyIndex(d, k)] = [key |-> k, value |-> v]]
    ELSE Append(d, [key |-> k, value |-> v])

UpdateAppending(d, e) == d \o e

RECURSIVE Update(_, _)
\* d.update(e)
Update(d, e) ==
    IF e = <<>> THEN d
    ELSE Update(SetItem(d, Head(e).key, Head(e).value), Tail(e))

\* list(d.values())
Values(d) == [i \in 1..Len(d) |-> d[i].value]

\* ------------------------------------------------------------ resolver
RECURSIVE resolve(_, _), resolve_all(_, _, _)

\* for dep in map(resolve, ms): acc.update(dep)
\* (an exception raised by one resolve call ends the loop)
resolve_all(ms, acc, depth) ==
    IF ms = <<>> THEN [error |-> "none", metrics |-> acc]
    ELSE LET dep == resolve(Head(ms), depth)
         IN  IF dep.error # "none" THEN dep
             ELSE resolve_all(Tail(ms), Update(acc, dep.metrics), depth)

\* resolve(metric), called at stack depth `depth`
resolve(metric, depth) ==
    IF depth > RecursionLimit
    THEN [error |-> "RecursionError", metrics |-> <<>>]
    ELSE LET deps == resolve_all(dependencies[metric], <<>>, depth + 1)
         IN  IF deps.error # "none" THEN deps
             ELSE [error |-> "none",
                   metrics |-> SetItem(deps.metrics, metric_name[metric], metric)]

resolve_dependencies(ms) ==
    LET result == resolve_all(ms, <<>>, 1)
    IN  IF result.error # "none" THEN result
        ELSE [error |-> "none", metrics |-> Values(result.metrics)]

\* return list(metrics)  # todo: actually sort
topo_sort_metrics(ms) == ms

\* ------------------------------------------------------------ Init
Edges == MetricIds \X MetricIds

\* the dependencies lists that a list of (metric, dependency) declarations gives
DependenciesOf(edges) ==
    [m \in MetricIds |->
        LET mine == SelectSeq(edges, LAMBDA e : e[1] = m)
        IN  [i \in 1..Len(mine) |-> mine[i][2]]]

Catalogues ==
    {DependenciesOf(edges) : edges \in {e \in SeqsUpTo(Edges, MaxEdges) : NoRepeat(e)}}

Namings ==
    {[m \in MetricIds |-> IF m = NumMetrics THEN last ELSE MetricNames[m]] :
        last \in {MetricNames[NumMetrics], MetricNames[1]}}

NoTable == [data |-> <<>>, metrics |-> <<>>, target_metrics |-> <<>>,
            metadata |-> [item_id |-> <<>>, start |-> <<>>]]

InitEvaluator ==
    /\ pc = "new"
    /\ error = "none"
    /\ metrics = <<>>
    /\ local_metric_targets = <<>>
    /\ aggregation_targets = <<>>
    /\ local_metrics = <<>>
    /\ dataset_len = 0
    /\ forecasts_len = 0
    /\ table = NoTable
    /\ evaluations = <<>>
    /\ got = Unset
    /\ aggregations = Unset

\* no Aggregation object is under test
NoAggregation ==
    /\ aggregation = "none"
    /\ axis = AxisNone
    /\ partial_result = None
    /\ count_n = None
    /\ value_stream = <<>>
    /\ source = 0
    /\ get_result = Unset

Init ==
    /\ metric_name \in Namings
    /\ dependencies \in Catalogues
    /\ can_aggregate \in [MetricIds -> BOOLEAN]
    /\ InitEvaluator
    /\ NoAggregation

\* ------------------------------------------------------------ Evaluator
Requested == {ms \in SeqsUpTo(MetricIds, MaxRequested) : NoRepeat(ms)}

\* Evaluator.__init__(metrics)
Construct(ms) ==
    /\ pc = "new"
    /\ metrics' = ms
    /\ local_metric_targets' = SelectSeq(ms, LAMBDA m : ~can_aggregate[m])
    /\ aggregation_targets' = SelectSeq(ms, LAMBDA m : can_aggregate[m])
    /\ LET required_metrics == resolve_dependencies(ms)
       IN  /\ error' = required_metrics.error
           /\ local_metrics' = IF required_metrics.error = "none"
                               THEN topo_sort_metrics(required_metrics.metrics)
                               ELSE <<>>
           /\ pc' = IF required_metrics.error = "none"
                    THEN "constructed" ELSE "construct_failed"
    /\ UNCHANGED <<metric_name, dependencies, can_aggregate, dataset_len,
                   forecasts_len, table, evaluations, got, aggregations>>
    /\ UNCHANGED aggregation_vars

\* ------------------------------------------------------------ rationals
\* A number is a fraction in lowest terms; the missing value NaN has den = 0.
NaN == [num |-> 0, den |-> 0]

IsNaN(x) == x.den = 0

Abs(n) == IF n < 0 THEN -n ELSE n

RECURSIVE GCD(_, _)
GCD(a, b) == IF b = 0 THEN a ELSE GCD(b, a % b)

\* n / d, for d > 0
Rat(n, d) ==
    LET g == GCD(Abs(n), d)
    IN  [num |-> n \div g, den |-> d \div g]

Num(n) == Rat(n, 1)

\* 0 / 0 is nan, as numpy's true_divide gives
Divide(n, d) == IF d = 0 THEN NaN ELSE Rat(n, d)

\* ------------------------------------------------------------ Metric
\* Metric.aggregation_name
aggregation_name(metric) == metric_name[metric] \o "_mean"

\* Metric.get(input_data, label, forecast, latest_metrics_data): the error of
\* item `index`, which is `index` itself in the datasets of this model
metric_get(metric, index, latest_metrics_data) == index

RECURSIVE SumSeq(_)
SumSeq(s) == IF s = <<>> THEN 0 ELSE Head(s) + SumSeq(Tail(s))

\* Metric.get_aggregate(values) of a metric that carries a Mean aggregation
get_aggregate(metric, values) == Divide(SumSeq(values), Len(values))

\* ------------------------------------------------------------ Evaluator.apply
RECURSIVE FromKeys(_, _)
\* {metric.name: [] for metric in ms}
FromKeys(ms, d) ==
    IF ms = <<>> THEN d
    ELSE FromKeys(Tail(ms), SetItem(d, metric_name[Head(ms)], <<>>))

RECURSIVE metric_loop(_, _, _)
\* for metric in self.local_metrics, from position k, on item `index`
metric_loop(index, k, st) ==
    IF k > Len(local_metrics) THEN st
    ELSE LET metric == local_metrics[k]
             name == metric_name[metric]
             value == metric_get(metric, index, st.latest_metrics_data)
         IN  metric_loop(index, k + 1,
                [st EXCEPT
                    !.metrics_data =
                        SetItem(@, name, Append(Lookup(@, name), value)),
                    !.latest_metrics_data = SetItem(@, name, value),
                    !.computed_for = SetItem(@, name, index),
                    !.evaluations =
                        Append(@, [metric |-> metric,
                                   index |-> index,
                                   latest_metrics_data |-> st.latest_metrics_data,
                                   computed_for |-> st.computed_for])])

\* latest_metrics_data = dict()
fresh_scratch(st) == [st EXCEPT !.latest_metrics_data = <<>>, !.computed_for = <<>>]

RECURSIVE item_loop(_, _, _, _)
\* for index in range(len(test_pairs.dataset)), from item `index`;
\* next(forecasts) raises StopIteration once the forecasts are used up
item_loop(index, n, f, st) ==
    IF index > n THEN st
    ELSE LET recorded ==
                 [st EXCEPT !.metadata.item_id = Append(@, index),
                            !.metadata.start = Append(@, index)]
         IN  IF index > f
             THEN [recorded EXCEPT !.error = "StopIteration"]
             ELSE item_loop(index + 1, n, f,
                            metric_loop(index, 1, fresh_scratch(recorded)))

\* Evaluator.apply(test_pairs, forecasts), the dataset holding n items and the
\* forecast iterator f elements
Apply(n, f) ==
    /\ pc = "constructed"
    /\ dataset_len' = n
    /\ forecasts_len' = f
    /\ LET st == item_loop(1, n, f,
                    [metrics_data |-> FromKeys(local_metrics, <<>>),
                     metadata |-> [item_id |-> <<>>, start |-> <<>>],
                     latest_metrics_data |-> <<>>,
                     computed_for |-> <<>>,
                     evaluations |-> <<>>,
                     error |-> "none"])
           \* np.stack(value, axis=0) raises ValueError on an empty list
           stacked == IF st.error # "none" THEN st.error
                      ELSE IF \E i \in 1..Len(st.metrics_data) :
                                  st.metrics_data[i].value = <<>>
                           THEN "ValueError"
                           ELSE "none"
       IN  /\ evaluations' = st.evaluations
           /\ error' = stacked
           /\ pc' = IF stacked = "none" THEN "applied" ELSE "apply_failed"
           /\ table' = IF stacked # "none" THEN NoTable
                       ELSE [data |-> st.metrics_data,
                             metrics |-> local_metrics \o aggregation_targets,
                             target_metrics |->
                                 [i \in 1..Len(local_metric_targets) |->
                                     metric_name[local_metric_targets[i]]],
                             metadata |-> st.metadata]
    /\ UNCHANGED <<metric_name, dependencies, can_aggregate, metrics,
                   local_metric_targets, aggregation_targets, local_metrics,
                   got, aggregations>>
    /\ UNCHANGED aggregation_vars

\* ------------------------------------------------------------ LocalMetrics
\* the projection that drops nothing
LocalMetrics_get_unfiltered(t) == t.data

\* keyfilter(lambda name: name in self.target_metrics, self.data)
LocalMetrics_get(t) ==
    SelectSeq(t.data, LAMBDA item : item.key \in Range(t.target_metrics))

RECURSIVE aggregate_loop(_, _, _)
\* for metric in self.metrics, from position k
aggregate_loop(t, k, aggs) ==
    IF k > Len(t.metrics) THEN aggs
    ELSE LET metric == t.metrics[k]
         IN  aggregate_loop(t, k + 1,
                IF can_aggregate[metric]
                THEN SetItem(aggs, aggregation_name(metric),
                             get_aggregate(metric, Lookup(t.data, metric_name[metric])))
                ELSE aggs)

LocalMetrics_aggregate(t) == aggregate_loop(t, 1, <<>>)

\* LocalMetrics.get()
Get ==
    /\ pc = "applied"
    /\ got = Unset
    /\ got' = Returned(LocalMetrics_get(table))
    /\ UNCHANGED <<metric_name, dependencies, can_aggregate, pc, error, metrics,
                   local_metric_targets, aggregation_targets, local_metrics,
                   dataset_len, forecasts_len, table, evaluations, aggregations>>
    /\ UNCHANGED aggregation_vars

\* LocalMetrics.aggregate()
Aggregate ==
    /\ pc = "applied"
    /\ aggregations = Unset
    /\ aggregations' = Returned(LocalMetrics_aggregate(table))
    /\ UNCHANGED <<metric_name, dependencies, can_aggregate, pc, error, metrics,
                   local_metric_targets, aggregation_targets, local_metrics,
                   dataset_len, forecasts_len, table, evaluations, got>>
    /\ UNCHANGED aggregation_vars

\* the lengths of the forecast iterator tried against a dataset of n items
ForecastLens(n) == {f \in {n - 1, n, n + 1} : f >= 0}

Next ==
    \/ \E ms \in Requested : Construct(ms)
    \/ \E n \in 0..MaxItems : \E f \in ForecastLens(n) : Apply(n, f)
    \/ Get
    \/ Aggregate

\* the resolver alone: it never reads can_aggregate, so only the flag of the
\* last metric varies, which lets two definitions of one name differ in it
InitResolve ==
    /\ metric_name \in Namings
    /\ dependencies \in Catalogues
    /\ can_aggregate \in {[m \in MetricIds |-> m = NumMetrics /\ flag] : flag \in BOOLEAN}
    /\ InitEvaluator
    /\ NoAggregation

NextResolve == \E ms \in Requested : Construct(ms)

Spec == Init /\ [][Next]_vars

SpecResolve == InitResolve /\ [][NextResolve]_vars

\* an Evaluator over direct metrics only: no metric has dependencies
InitDirect ==
    /\ metric_name \in Namings
    /\ dependencies = [m \in MetricIds |-> <<>>]
    /\ can_aggregate \in [MetricIds -> BOOLEAN]
    /\ InitEvaluator
    /\ NoAggregation

SpecDirect == InitDirect /\ [][Next]_vars

\* ------------------------------------------------------------ arrays
\* A batch is a 2-d array: the sequence of its rows, each a sequence of cells.
Zero == Num(0)

\* x + y of two numbers that are not nan
RatAdd(x, y) == Rat(x.num * y.den + y.num * x.den, x.den * y.den)

\* x / c of a number that is not nan by a count; x / 0 is nan
RatDiv(x, c) == IF c = 0 THEN NaN ELSE Rat(x.num, x.den * c)

RECURSIVE nansum_cells(_)
\* the sum of the cells that are not nan; 0 when there is none
nansum_cells(cells) ==
    IF cells = <<>> THEN Zero
    ELSE LET rest == nansum_cells(Tail(cells))
         IN  IF IsNaN(Head(cells)) THEN rest ELSE RatAdd(Head(cells), rest)

\* the number of cells that are not nan
count_cells(cells) == Cardinality({i \in 1..Len(cells) : ~IsNaN(cells[i])})

RECURSIVE Flatten(_)
Flatten(rows) == IF rows = <<>> THEN <<>> ELSE Head(rows) \o Flatten(Tail(rows))

Shape(values) == <<Len(values), IF values = <<>> THEN 0 ELSE Len(values[1])>>

Column(values, j) == [i \in 1..Len(values) |-> values[i][j]]

\* the cells that are reduced into output cell k (axis 0: a column, axis 1: a
\* row), or all cells when axis is None
Reduced(values, a, k) ==
    IF a = AxisNone THEN Flatten(values)
    ELSE IF a = 0 THEN Column(values, k) ELSE values[k]

\* the number of output cells of a reduction along axis a
OutLen(values, a) == IF a = 0 THEN Shape(values)[2] ELSE Shape(values)[1]

\* np.nansum(values, axis=a)
nansum(values, a) ==
    IF a = AxisNone THEN nansum_cells(Flatten(values))
    ELSE [k \in 1..OutLen(values, a) |-> nansum_cells(Reduced(values, a, k))]

\* the count of the non-nan cells along axis a
count(values, a) ==
    IF a = AxisNone THEN count_cells(Flatten(values))
    ELSE [k \in 1..OutLen(values, a) |-> count_cells(Reduced(values, a, k))]

\* np.nanmean(values, axis=a)
nanmean(values, a) ==
    IF a = AxisNone
    THEN RatDiv(nansum_cells(Flatten(values)), count_cells(Flatten(values)))
    ELSE [k \in 1..OutLen(values, a) |->
             RatDiv(nansum_cells(Reduced(values, a, k)),
                    count_cells(Reduced(values, a, k)))]

\* np.concatenate(arrays), along axis 0
Concatenate(arrays) == Flatten(arrays)

\* np.full(shape, fill_value)
Full(rows, cols, fill_value) == [i \in 1..rows |-> [j \in 1..cols |-> fill_value]]

\* ------------------------------------------------------------ test data
VALUE_STREAM ==
    << << Full(3, 5, NaN), Full(3, 5, NaN), Full(3, 5, NaN) >>,
       << << <<Num(0), NaN>>, <<Num(0), Num(0)>> >>,
          << <<Num(0), Num(5)>>, <<Num(-5), NaN>> >> >>,
       << Full(3, 3, Num(1)), Full(1, 3, Num(4)) >> >>

SUM_RES_AXIS_NONE == << Num(0), Num(0), Num(21) >>

SUM_RES_AXIS_0 ==
    << [j \in 1..5 |-> Num(0)],
       << Num(-5), Num(5) >>,
       << Num(7), Num(7), Num(7) >> >>

SUM_RES_AXIS_1 ==
    << [j \in 1..9 |-> Num(0)],
       << Num(0), Num(0), Num(5), Num(-5) >>,
       << Num(3), Num(3), Num(3), Num(12) >> >>

MEAN_RES_AXIS_NONE == << NaN, Num(0), Rat(175, 100) >>

MEAN_RES_AXIS_0 ==
    << [j \in 1..5 |-> NaN],
       << Rat(-125, 100), Rat(25, 10) >>,
       << Rat(175, 100), Rat(175, 100), Rat(175, 100) >> >>

MEAN_RES_AXIS_1 ==
    << [j \in 1..9 |-> NaN],
       << Num(0), Num(0), Rat(25, 10), Num(-5) >>,
       << Num(1), Num(1), Num(1), Num(4) >> >>

\* test_Sum / test_Mean: the result expected of aggregation `aggr` with axis a
\* on VALUE_STREAM[k]
expected_result(aggr, a, k) ==
    IF aggr = "Sum"
    THEN (IF a = AxisNone THEN SUM_RES_AXIS_NONE[k]
          ELSE IF a = 0 THEN SUM_RES_AXIS_0[k] ELSE SUM_RES_AXIS_1[k])
    ELSE (IF a = AxisNone THEN MEAN_RES_AXIS_NONE[k]
          ELSE IF a = 0 THEN MEAN_RES_AXIS_0[k] ELSE MEAN_RES_AXIS_1[k])

\* the number of rows that every batch of the stream has
MinRows(stream) ==
    CHOOSE r \in 0..Len(stream[1]) :
        /\ \A b \in 1..Len(stream) : r <= Len(stream[b])
        /\ r = Len(stream[1]) \/ \E b \in 1..Len(stream) : r = Len(stream[b])

\* np.concatenate(value_stream, axis=1): row i of every batch, side by side
all_values_along_axis_1(stream) ==
    [i \in 1..MinRows(stream) |-> Flatten([b \in 1..Len(stream) |-> stream[b][i]])]

\* test_high_dim: all_values = np.concatenate(value_stream)
all_values(stream) == Concatenate(stream)

\* test_high_dim: expected_sum = np.nansum(all_values, axis=axis)
expected_sum(stream, a) == nansum(all_values(stream), a)

\* the mean that counts a missing cell as a contribution of 0
expected_mean_counting_missing(stream, a) ==
    LET v == all_values(stream)
    IN  IF a = AxisNone
        THEN RatDiv(nansum_cells(Flatten(v)), Len(Flatten(v)))
        ELSE [k \in 1..OutLen(v, a) |->
                 RatDiv(nansum_cells(Reduced(v, a, k)), Len(Reduced(v, a, k)))]

\* test_high_dim: expected_mean = np.nanmean(all_values, axis=axis)
expected_mean(stream, a) == nanmean(all_values(stream), a)

\* ------------------------------------------------------------ Aggregation
\* x + y, of two scalars (axis None) or of two arrays of one shape (axis 0)
Plus(x, y, a) ==
    IF a = AxisNone THEN x + y ELSE [k \in 1..Len(x) |-> x[k] + y[k]]

RatPlus(x, y, a) ==
    IF a = AxisNone THEN RatAdd(x, y) ELSE [k \in 1..Len(x) |-> RatAdd(x[k], y[k])]

\* the values a cell of a freely chosen batch can take
CellValues == {NaN, Num(0), Num(1)}

\* the batches of `cols` columns that have at most `cells` cells
Batches(cols, cells) ==
    UNION {[1..rows -> [1..cols -> CellValues]] : rows \in 1..(cells \div cols)}

RECURSIVE Cells(_)
Cells(stream) ==
    IF stream = <<>> THEN 0
    ELSE Len(Head(stream)) * Shape(Head(stream))[2] + Cells(Tail(stream))

\* the batches that can be fed next: the next batch of the test stream
\* `source`, or (source 0) any batch with the columns of the batches before it
NextBatches ==
    IF source # 0
    THEN (IF Len(value_stream) < Len(VALUE_STREAM[source])
          THEN {VALUE_STREAM[source][Len(value_stream) + 1]}
          ELSE {})
    ELSE IF value_stream = <<>>
         THEN UNION {Batches(cols, MaxCells) : cols \in 1..MaxCells}
         ELSE Batches(Shape(value_stream[1])[2], MaxCells - Cells(value_stream))

\* Sum.step(values)
Sum_step(values) ==
    /\ aggregation = "Sum"
    /\ LET summed_values == nansum(values, axis)
       IN  partial_result' =
               IF axis \in {AxisNone, 0}
               THEN Some(IF partial_result.is_none THEN summed_values
                         ELSE RatPlus(partial_result.value, summed_values, axis))
               ELSE Some(Append(partial_result.value, summed_values))
    /\ value_stream' = Append(value_stream, values)
    /\ get_result' = Unset
    /\ UNCHANGED <<aggregation, axis, count_n, source>>
    /\ UNCHANGED evaluator_vars

\* Sum.get()
Sum_get ==
    /\ aggregation = "Sum"
    /\ ~partial_result.is_none
    /\ ~get_result.returned
    /\ get_result' = Returned(IF axis \in {AxisNone, 0}
                              THEN partial_result.value
                              ELSE Concatenate(partial_result.value))
    /\ UNCHANGED <<aggregation, axis, partial_result, count_n, value_stream, source>>
    /\ UNCHANGED evaluator_vars

\* Mean.step(values)
Mean_step(values) ==
    /\ aggregation = "Mean"
    /\ IF axis \in {AxisNone, 0}
       THEN /\ partial_result' =
                   Some(IF partial_result.is_none THEN nansum(values, axis)
                        ELSE RatPlus(partial_result.value, nansum(values, axis), axis))
            /\ count_n' =
                   Some(IF count_n.is_none THEN count(values, axis)
                        ELSE Plus(count_n.value, count(values, axis), axis))
       ELSE /\ partial_result' = Some(Append(partial_result.value, nanmean(values, axis)))
            /\ UNCHANGED count_n
    /\ value_stream' = Append(value_stream, values)
    /\ get_result' = Unset
    /\ UNCHANGED <<aggregation, axis, source>>
    /\ UNCHANGED evaluator_vars

\* Mean.get()
Mean_get ==
    /\ aggregation = "Mean"
    /\ ~partial_result.is_none
    /\ ~get_result.returned
    /\ get_result' =
           Returned(IF axis = AxisNone
                    THEN RatDiv(partial_result.value, count_n.value)
                    ELSE IF axis = 0
                         THEN [k \in 1..Len(partial_result.value) |->
                                  RatDiv(partial_result.value[k], count_n.value[k])]
                         ELSE Concatenate(partial_result.value))
    /\ UNCHANGED <<aggregation, axis, partial_result, count_n, value_stream, source>>
    /\ UNCHANGED evaluator_vars

\* Sum(axis=a) or Mean(axis=a), fed a test stream or a freely chosen one
InitAggregation ==
    /\ aggregation \in {"Sum", "Mean"}
    /\ axis \in {AxisNone, 0, 1}
    /\ source \in 0..Len(VALUE_STREAM)
    /\ partial_result = None
    /\ count_n = None
    /\ value_stream = <<>>
    /\ get_result = Unset
    /\ metric_name = [m \in MetricIds |-> MetricNames[m]]
    /\ dependencies = [m \in MetricIds |-> <<>>]
    /\ can_aggregate = [m \in MetricIds |-> FALSE]
    /\ InitEvaluator

NextAggregation ==
    \/ \E values \in NextBatches : Sum_step(values)
    \/ Sum_get
    \/ \E values \in NextBatches : Mean_step(values)
    \/ Mean_get

SpecAggregation == InitAggregation /\ [][NextAggregation]_vars

\* ============================================================ properties
RECURSIVE Closure(_)
\* the metrics reachable from the set S along `dependencies`
Closure(S) ==
    LET T == S \cup UNION {Range(dependencies[m]) : m \in S}
    IN  IF T = S THEN S ELSE Closure(T)

\* m is among its own transitive dependencies
DependsOnItself(m) == m \in Closure(Range(dependencies[m]))

\* the requested metrics ms reach a self-dependency or a dependency cycle
HasCycle(ms) == \E m \in Closure(Range(ms)) : DependsOnItself(m)

RECURSIVE NameClosure(_, _)
\* the names reachable from the names N along the dependency relation on names
\* that the metrics of the set M declare
NameClosure(N, M) ==
    LET T == N \cup {metric_name[d] :
                        d \in UNION {Range(dependencies[m]) :
                                        m \in {x \in M : metric_name[x] \in N}}}
    IN  IF T = N THEN N ELSE NameClosure(T, M)

\* the dependency relation of the metrics needed for ms, read on names, is acyclic
Acyclic(ms) ==
    LET M == Closure(Range(ms))
    IN  \A m \in M :
            metric_name[m] \notin
                NameClosure({metric_name[d] : d \in Range(dependencies[m])}, M)

NamesOf(ms) == [i \in 1..Len(ms) |-> metric_name[ms[i]]]

\* every dependency of every metric of the list is named at an earlier position
Topological(ms) ==
    \A i \in 1..Len(ms) : \A d \in Range(dependencies[ms[i]]) :
        \E j \in 1..(i - 1) : metric_name[ms[j]] = metric_name[d]

\* two metrics needed for ms share a name and differ in their definition
Conflicting(ms) ==
    \E a, b \in Closure(Range(ms)) :
        /\ a # b
        /\ metric_name[a] = metric_name[b]
        /\ \/ dependencies[a] # dependencies[b]
           \/ can_aggregate[a] # can_aggregate[b]

\* C1: for every requested collection whose dependency relation is acyclic,
\* Evaluator.local_metrics is in topological order: every metric named in
\* M.dependencies stands strictly before M.
C1_TopologicalOrder ==
    (pc = "constructed" /\ Acyclic(metrics)) => Topological(local_metrics)

\* C2: resolving metrics that reach a self-dependency or a cycle fails with a
\* configuration error, within a recursion depth the metric set bounds.
C2_CycleIsConfigurationError ==
    (pc # "new" /\ HasCycle(metrics)) => error = "ConfigurationError"

\* C5: no name occurs twice in the result of resolve_dependencies, and
\* resolving that result again gives the same set of names.
C5_DeduplicatedAndIdempotent ==
    pc = "constructed" =>
        LET closure == resolve_dependencies(metrics)
            again == resolve_dependencies(closure.metrics)
        IN  /\ closure.error = "none"
            /\ NoRepeat(NamesOf(closure.metrics))
            /\ again.error = "none"
            /\ NoRepeat(NamesOf(again.metrics))
            /\ Range(NamesOf(again.metrics)) = Range(NamesOf(closure.metrics))

\* two requested derived metrics share a sub-metric, and the Evaluator is built
C5_Witness ==
    /\ pc = "constructed"
    /\ Len(metrics) = 2
    /\ metrics[1] # metrics[2]
    /\ dependencies[metrics[1]] # <<>>
    /\ dependencies[metrics[1]] = dependencies[metrics[2]]
    /\ Len(local_metrics) = 3

\* C6: building an Evaluator from metrics of which two share a name and have
\* conflicting definitions fails with a configuration error.
C6_ConflictIsConfigurationError ==
    (pc # "new" /\ Conflicting(metrics)) => error = "ConfigurationError"

\* Without two definitions under one name the order is topological: the
\* failures of C1 are those of C6.
TopologicalWithoutConflict ==
    (pc = "constructed" /\ ~Conflicting(metrics)) => Topological(local_metrics)

\* C3: apply returns a table only when the forecasts are exactly as many as
\* the dataset items; it fails when the forecasts run out early, before the
\* pass completes, and when forecasts are left over after the last item.
C3_LengthMismatchIsFatal ==
    pc \in {"applied", "apply_failed"} =>
        /\ pc = "applied" => forecasts_len = dataset_len
        /\ forecasts_len < dataset_len =>
              /\ error = "StopIteration"
              /\ Len(evaluations) < dataset_len * Len(local_metrics) \/ local_metrics = <<>>
        /\ forecasts_len > dataset_len => pc = "apply_failed"

\* the single requested metric "abs_error", applied to the 3 items 1, 2, 3,
\* and both get() and aggregate() called on the table
EndToEnd ==
    /\ pc = "applied"
    /\ Len(metrics) = 1
    /\ metric_name[metrics[1]] = "abs_error"
    /\ dependencies[metrics[1]] = <<>>
    /\ dataset_len = 3
    /\ got.returned
    /\ aggregations.returned

\* C4 as stated: aggregate()["abs_error_mean"] = 2.0 and get()["abs_error"]
\* is present and equals [1, 2, 3].
C4_EndToEndAsStated ==
    EndToEnd =>
        /\ "abs_error_mean" \in Keys(aggregations.value)
        /\ Lookup(aggregations.value, "abs_error_mean") = Num(2)
        /\ "abs_error" \in Keys(got.value)
        /\ Lookup(got.value, "abs_error") = <<1, 2, 3>>

\* C4 as amended: the per-item values [1, 2, 3] are stored under "abs_error"
\* in dataset order; an aggregating metric gives aggregate()["abs_error_mean"]
\* = 2.0 and no "abs_error" entry in get(); a non-aggregating one gives
\* get()["abs_error"] = [1, 2, 3] and an empty aggregate().
C4_EndToEnd ==
    EndToEnd =>
        /\ Keys(table.data) = {"abs_error"}
        /\ Lookup(table.data, "abs_error") = <<1, 2, 3>>
        /\ can_aggregate[metrics[1]] =>
              /\ Keys(aggregations.value) = {"abs_error_mean"}
              /\ Lookup(aggregations.value, "abs_error_mean") = Num(2)
              /\ got.value = <<>>
        /\ ~can_aggregate[metrics[1]] =>
              /\ aggregations.value = <<>>
              /\ Keys(got.value) = {"abs_error"}
              /\ Lookup(got.value, "abs_error") = <<1, 2, 3>>

C4_Witness == EndToEnd /\ can_aggregate[metrics[1]]

\* C7: aggregate() has exactly one entry per requested aggregating metric,
\* keyed by its aggregation name, and no other entry.
C7_AggregatesAreTheRequestedOnes ==
    aggregations.returned =>
        Keys(aggregations.value) =
            {aggregation_name(m) : m \in {x \in Range(metrics) : can_aggregate[x]}}

\* C10: whenever a metric M is evaluated for item i, the scratch mapping holds
\* a value for every metric named in M.dependencies, and every value in it was
\* computed for item i.
C10_ScratchHoldsDependenciesOfThisItem ==
    \A k \in 1..Len(evaluations) :
        LET e == evaluations[k]
        IN  /\ \A d \in Range(dependencies[e.metric]) :
                  metric_name[d] \in Keys(e.latest_metrics_data)
            /\ \A j \in 1..Len(e.computed_for) : e.computed_for[j].value = e.index

\* The scratch of C10 never holds a value of another item, and lacks a
\* dependency only where two definitions share a name (C6).
ScratchWithoutConflict ==
    \A k \in 1..Len(evaluations) :
        LET e == evaluations[k]
        IN  /\ ~Conflicting(metrics) =>
                  \A d \in Range(dependencies[e.metric]) :
                      metric_name[d] \in Keys(e.latest_metrics_data)
            /\ \A j \in 1..Len(e.computed_for) : e.computed_for[j].value = e.index

\* the batches have one shape off the reduction axis a (the model's batches
\* of one stream always have the same number of columns)
SameShapeOffAxis(stream, a) ==
    a = 1 => \A b \in 1..Len(stream) : Len(stream[b]) = Len(stream[1])

\* the concatenation of the batches along the reduction axis a (all cells are
\* reduced when a is None, whatever the concatenation)
ConcatenateAlong(stream, a) ==
    IF a = 1 THEN all_values_along_axis_1(stream) ELSE Concatenate(stream)

AllMissing(stream) == \A c \in Range(Flatten(Concatenate(stream))) : IsNaN(c)

SomeMissing(stream) == \E c \in Range(Flatten(Concatenate(stream))) : IsNaN(c)

\* the output cells of a result, a scalar when axis is None
OutCells(v, a) == IF a = AxisNone THEN <<v>> ELSE v

\* a whole test stream of the repository was fed
TestStreamFed == source # 0 /\ Len(value_stream) = Len(VALUE_STREAM[source])

====
